---------------------------- MODULE Spec2Model ----------------------------
(***************************************************************************)
(* Loan Default Insight Pro: the filter engine, the risk scorer, the       *)
(* portfolio and segment aggregators, the action ranker and the dataset    *)
(* loader, as state machines over a recordset.                             *)
(*                                                                         *)
(* A recordset (pandas DataFrame) is a sequence of rows, a row a record of *)
(* its columns.  A float is an exact rational [n, d] in lowest terms; the  *)
(* value with d = 0 is NaN (what pandas returns for the mean of nothing).  *)
(*                                                                         *)
(*   df    the recordset the next operation is called on                   *)
(*   call  the operation that was invoked, with its arguments              *)
(*   ret   what it returned (or the exception it raised)                   *)
(***************************************************************************)
EXTENDS Integers, Sequences, FiniteSets, TLC

VARIABLES df, call, ret

vars == <<df, call, ret>>

\* Rows a recordset may hold in the model.
MaxRows == 3

\* Rows of the recordsets the filter engine is run on.
MaxFilterRows == 2

NoCall == [op |-> "none"]

Idle == call.op = "none"

(***************************************************************************)
(* Floats as exact rationals.                                              *)
(***************************************************************************)
RECURSIVE GCD(_, _)
GCD(a, b) == IF b = 0 THEN a ELSE GCD(b, a % b)

Abs(x) == IF x < 0 THEN -x ELSE x

NaN == [n |-> 0, d |-> 0]

IsNaN(x) == x.d = 0

Rat(n, d) ==
    IF d = 0 THEN NaN
    ELSE LET g == GCD(Abs(n), Abs(d))
             s == IF d < 0 THEN -1 ELSE 1
         IN  [n |-> (s * n) \div g, d |-> (s * d) \div g]

R(i) == [n |-> i, d |-> 1]

RAdd(a, b) == IF IsNaN(a) \/ IsNaN(b) THEN NaN ELSE Rat(a.n * b.d + b.n * a.d, a.d * b.d)

RSub(a, b) == IF IsNaN(a) \/ IsNaN(b) THEN NaN ELSE Rat(a.n * b.d - b.n * a.d, a.d * b.d)

RMul(a, b) == IF IsNaN(a) \/ IsNaN(b) THEN NaN ELSE Rat(a.n * b.n, a.d * b.d)

\* x / 0 is never a number
RDiv(a, b) == IF IsNaN(a) \/ IsNaN(b) \/ b.n = 0 THEN NaN ELSE Rat(a.n * b.d, a.d * b.n)

\* comparisons with NaN are false, as in IEEE 754
RLt(a, b) == ~IsNaN(a) /\ ~IsNaN(b) /\ a.n * b.d < b.n * a.d

RLe(a, b) == ~IsNaN(a) /\ ~IsNaN(b) /\ a.n * b.d <= b.n * a.d

RECURSIVE SumInt(_)
SumInt(s) == IF s = <<>> THEN 0 ELSE Head(s) + SumInt(Tail(s))

RECURSIVE SumRat(_)
SumRat(s) == IF s = <<>> THEN R(0) ELSE RAdd(Head(s), SumRat(Tail(s)))

\* Series.mean(): NaN on an empty series
MeanInt(s) == Rat(SumInt(s), Len(s))

Column(d, c) == [i \in 1..Len(d) |-> d[i][c]]

(***************************************************************************)
(* Filter engine: src/core/processing.py, src/components/sidebar.py        *)
(***************************************************************************)
NumericCols == {"Age", "Income", "LoanAmount", "CreditScore", "InterestRate", "DTIRatio"}

TextCols == {"Education", "EmploymentType", "MaritalStatus", "LoanPurpose"}

BinaryCols == {"HasMortgage", "HasDependents", "HasCoSigner", "Default"}

\* The values a column takes in the model's recordsets.
ColDomain(c) ==
    IF c \in NumericCols THEN {1, 2, 3}
    ELSE IF c \in TextCols THEN {"A", "B"}
    ELSE {0, 1}

BaseRow == [c \in NumericCols \cup TextCols \cup BinaryCols |->
              IF c \in NumericCols THEN 2 ELSE IF c \in TextCols THEN "A" ELSE 0]

\* The base row, and every row that differs from it in one column.
FilterRows ==
    {BaseRow} \cup
    UNION {{[BaseRow EXCEPT ![c] = v] : v \in ColDomain(c)} :
              c \in NumericCols \cup TextCols \cup BinaryCols}

WithLoanID(r, id) == [c \in DOMAIN r \cup {"LoanID"} |-> IF c = "LoanID" THEN id ELSE r[c]]

\* Filters field of a column
RangeField(c) ==
    CASE c = "Age" -> "age_range"
      [] c = "Income" -> "income_range"
      [] c = "LoanAmount" -> "loan_amount_range"
      [] c = "CreditScore" -> "credit_score_range"
      [] c = "InterestRate" -> "interest_rate_range"
      [] c = "DTIRatio" -> "dti_range"

SetField(c) ==
    CASE c = "Education" -> "education"
      [] c = "EmploymentType" -> "employment_type"
      [] c = "MaritalStatus" -> "marital_status"
      [] c = "LoanPurpose" -> "loan_purpose"
      [] c = "HasMortgage" -> "has_mortgage"
      [] c = "HasDependents" -> "has_dependents"
      [] c = "HasCoSigner" -> "has_cosigner"
      [] c = "Default" -> "default"

\* render_filters' initial selection: every range at the data's full extent,
\* the text multiselects empty, the binary multiselects [0, 1].
DefaultFilters ==
    [age_range |-> <<1, 3>>, income_range |-> <<1, 3>>, loan_amount_range |-> <<1, 3>>,
     credit_score_range |-> <<1, 3>>, interest_rate_range |-> <<1, 3>>, dti_range |-> <<1, 3>>,
     education |-> {}, employment_type |-> {}, marital_status |-> {}, loan_purpose |-> {},
     has_mortgage |-> {0, 1}, has_dependents |-> {0, 1}, has_cosigner |-> {0, 1},
     default |-> {0, 1}]

\* A slider yields low <= high within the extent; a multiselect any subset of its options.
Ranges == {<<lo, hi>> \in {1, 2, 3} \X {1, 2, 3} : lo <= hi}

\* The Filters a user reaches by moving one widget.
Filters ==
    {DefaultFilters} \cup
    UNION {{[DefaultFilters EXCEPT ![RangeField(c)] = rg] : rg \in Ranges} : c \in NumericCols}
    \cup
    UNION {{[DefaultFilters EXCEPT ![SetField(c)] = s] : s \in SUBSET ColDomain(c)} :
              c \in TextCols \cup BinaryCols}

\* Series.between(lo, hi): inclusive of both ends
between(x, rg) == rg[1] <= x /\ x <= rg[2]

\* Series.isin(values)
isin(x, values) == x \in values

\* the mask apply_filters builds, for one row
mask(r, f) ==
    /\ between(r.Age, f.age_range)
    /\ between(r.Income, f.income_range)
    /\ between(r.LoanAmount, f.loan_amount_range)
    /\ between(r.CreditScore, f.credit_score_range)
    /\ between(r.InterestRate, f.interest_rate_range)
    /\ between(r.DTIRatio, f.dti_range)
    /\ (f.education # {} => isin(r.Education, f.education))
    /\ (f.employment_type # {} => isin(r.EmploymentType, f.employment_type))
    /\ (f.marital_status # {} => isin(r.MaritalStatus, f.marital_status))
    /\ (f.loan_purpose # {} => isin(r.LoanPurpose, f.loan_purpose))
    /\ isin(r.HasMortgage, f.has_mortgage)
    /\ isin(r.HasDependents, f.has_dependents)
    /\ isin(r.HasCoSigner, f.has_cosigner)
    /\ isin(r.Default, f.default)

\* df.loc[mask].copy(): the kept rows, in order, as a new recordset
apply_filters(d, f) == LET keep(r) == mask(r, f) IN SelectSeq(d, keep)

InitFilter == df = <<>> /\ call = NoCall /\ ret = <<>>

AddFilterRow ==
    /\ Idle
    /\ Len(df) < MaxFilterRows
    /\ \E r \in FilterRows : df' = Append(df, WithLoanID(r, Len(df) + 1))
    /\ UNCHANGED <<call, ret>>

CallApplyFilters ==
    /\ Idle
    /\ \E f \in Filters :
          /\ call' = [op |-> "apply_filters", f |-> f]
          /\ ret' = apply_filters(df, f)
    /\ UNCHANGED df

NextFilter == AddFilterRow \/ CallApplyFilters

SpecFilter == InitFilter /\ [][NextFilter]_vars

\* C1: in apply_filters an empty allowed-set, of a text filter or of a binary one,
\* imposes no constraint: the result is the one obtained with that attribute
\* left free (every value of the column allowed).
C1_EmptySetNoConstraint ==
    call.op = "apply_filters" =>
        \A c \in TextCols \cup BinaryCols :
            call.f[SetField(c)] = {} =>
                ret = apply_filters(df, [call.f EXCEPT ![SetField(c)] = ColDomain(c)])

\* The row test C9 states: every range inclusive, every non-empty allowed-set a
\* membership test, an empty allowed-set no test.
C9_Keeps(r, f) ==
    /\ \A c \in NumericCols : f[RangeField(c)][1] <= r[c] /\ r[c] <= f[RangeField(c)][2]
    /\ \A c \in TextCols \cup BinaryCols : f[SetField(c)] # {} => r[c] \in f[SetField(c)]

\* C9: apply_filters returns exactly the rows that pass C9_Keeps, in their
\* original order (so zero rows for a zero-row input).
C9_KeepsExactlyMatchingRows ==
    call.op = "apply_filters" =>
        LET keep(r) == C9_Keeps(r, call.f) IN ret = SelectSeq(df, keep)

(***************************************************************************)
(* Risk scorer: src/core/risk.py                                           *)
(***************************************************************************)
\* a plausible slip: only the lower bound applied
clip_lower_only(x, lower, upper) == IF IsNaN(x) THEN x ELSE IF RLt(x, lower) THEN lower ELSE x

\* Series.clip(lower, upper); NaN stays NaN
clip(x, lower, upper) ==
    IF IsNaN(x) THEN x
    ELSE IF RLt(x, lower) THEN lower
    ELSE IF RLt(upper, x) THEN upper
    ELSE x

RECURSIVE InsertInt(_, _)
InsertInt(x, s) ==
    IF s = <<>> THEN <<x>>
    ELSE IF x <= Head(s) THEN <<x>> \o s
    ELSE <<Head(s)>> \o InsertInt(x, Tail(s))

RECURSIVE SortInts(_)
SortInts(s) == IF s = <<>> THEN <<>> ELSE InsertInt(Head(s), SortInts(Tail(s)))

\* Series.quantile(qn / qd), linear interpolation between the two nearest
\* order statistics; NaN on an empty series
quantile(s, qn, qd) ==
    LET n == Len(s)
        srt == SortInts(s)
        h == (n - 1) * qn
        lo == h \div qd
        fr == h % qd
    IN  IF n = 0 THEN NaN
        ELSE IF fr = 0 THEN R(srt[lo + 1])
        ELSE RAdd(R(srt[lo + 1]), RMul(Rat(fr, qd), R(srt[lo + 2] - srt[lo + 1])))

\* the weights of the three components (risk.py:32)
W_DTI == Rat(45, 100)

W_CS == Rat(35, 100)

W_IR == Rat(20, 100)

CS_MIN == 300

CS_MAX == 850

\* dti: DTIRatio clipped to [0, 1] (risk.py:20)
dti_component(row) == clip(row.DTIRatio, R(0), R(1))

\* cs_risk: one minus the credit score clamped to [300, 850] and scaled to
\* [0, 1] (risk.py:23-24)
credit_risk_component(row) ==
    LET cs_norm ==
            clip(RDiv(RSub(clip(R(row.CreditScore), R(CS_MIN), R(CS_MAX)), R(CS_MIN)),
                      R(CS_MAX - CS_MIN)),
                 R(0), R(1))
    IN  RSub(R(1), cs_norm)

\* the 5th percentile of the interest rates of d
p5(d) == quantile(Column(d, "InterestRate"), 1, 20)

\* the 95th percentile of the interest rates of d
p95(d) == quantile(Column(d, "InterestRate"), 19, 20)

\* a plausible slip: the division by p95 - p5 left unguarded
ir_norm_unguarded(ir, lo, hi) == clip(RDiv(RSub(R(ir), lo), RSub(hi, lo)), R(0), R(1))

\* ir_norm of an interest rate between the percentiles lo and hi of its
\* recordset, ir * 0 when the percentiles do not differ (risk.py:29)
ir_norm(ir, lo, hi) ==
    IF RLt(lo, hi)
    THEN clip(RDiv(RSub(R(ir), lo), RSub(hi, lo)), R(0), R(1))
    ELSE RMul(R(ir), R(0))

\* compute_risk_score: one score for each row of d
compute_risk_score(d) ==
    LET lo == p5(d)
        hi == p95(d)
        score(i) ==
            RAdd(RAdd(RMul(W_DTI, dti_component(d[i])),
                      RMul(W_CS, credit_risk_component(d[i]))),
                 RMul(W_IR, ir_norm(d[i].InterestRate, lo, hi)))
    IN  [i \in 1..Len(d) |-> clip(score(i), R(0), R(1))]

\* a plausible slip: the threshold itself counted as critical
flag_critical_dti_inclusive(d, threshold) ==
    [i \in 1..Len(d) |-> RLe(threshold, d[i].DTIRatio)]

\* flag_critical_dti: the raw DTIRatio against the threshold
flag_critical_dti(d, threshold) == [i \in 1..Len(d) |-> RLt(threshold, d[i].DTIRatio)]

\* compute_value_at_risk: sum(LoanAmount * risk_score)
compute_value_at_risk(d, risk_score) ==
    SumRat([i \in 1..Len(d) |-> RMul(R(d[i].LoanAmount), risk_score[i])])

\* DTIRatio, CreditScore and InterestRate inside and outside their nominal ranges
RiskRows ==
    {[DTIRatio |-> dti, CreditScore |-> cs, InterestRate |-> ir, LoanAmount |-> 1000] :
        dti \in {Rat(-1, 10), Rat(2, 5), Rat(3, 2)},
        cs \in {200, 575, 900},
        ir \in {-5, 10, 20}}

InitRisk == df = <<>> /\ call = NoCall /\ ret = <<>>

AddRiskRow ==
    /\ Idle
    /\ Len(df) < MaxRows
    /\ \E r \in RiskRows : df' = Append(df, WithLoanID(r, Len(df) + 1))
    /\ UNCHANGED <<call, ret>>

CallComputeRiskScore ==
    /\ Idle
    /\ call' = [op |-> "compute_risk_score"]
    /\ ret' = compute_risk_score(df)
    /\ UNCHANGED df

NextRisk == AddRiskRow \/ CallComputeRiskScore

SpecRisk == InitRisk /\ [][NextRisk]_vars

\* C4: every score compute_risk_score returns is a number in [0, 1], whatever
\* the DTIRatio, CreditScore and InterestRate of the rows.
C4_ScoreInUnitInterval ==
    call.op = "compute_risk_score" =>
        /\ Len(ret) = Len(df)
        /\ \A i \in 1..Len(ret) : RLe(R(0), ret[i]) /\ RLe(ret[i], R(1))

\* C4's case: a scored recordset with a row out of range in all three attributes
\* and distinct percentiles.
C4_Witness ==
    /\ call.op = "compute_risk_score"
    /\ \E i \in 1..Len(df) :
          /\ RLt(R(1), df[i].DTIRatio)
          /\ df[i].CreditScore < CS_MIN
          /\ ret[i] = R(1)
    /\ \E i \in 1..Len(df) : RLt(df[i].DTIRatio, R(0)) /\ df[i].CreditScore > CS_MAX
    /\ \E i, j \in 1..Len(df) : df[i].InterestRate < df[j].InterestRate

(***************************************************************************)
(* Grouping and ranking: src/core/metrics.py                               *)
(***************************************************************************)
\* a missing value (NaN) of a text column
NA == "NaN"

\* the text values of the model's recordsets, in ascending order
CatOrder == <<"A", "B">>

\* Position of a group value in groupby's sorted output: ascending, missing last
\* (dropna=False).
CatRank(v) ==
    IF v = NA THEN Len(CatOrder) + 1 ELSE CHOOSE i \in 1..Len(CatOrder) : CatOrder[i] = v

\* a plausible slip: groupby(sort=False), the groups in order of first appearance
GroupKeysUnsorted(d, by) ==
    LET ks == {d[i][by] : i \in 1..Len(d)}
        first(v) == CHOOSE i \in 1..Len(d) : d[i][by] = v /\ \A j \in 1..(i - 1) : d[j][by] # v
    IN  [k \in 1..Cardinality(ks) |->
            CHOOSE v \in ks : Cardinality({w \in ks : first(w) < first(v)}) = k - 1]

\* df.groupby(by, dropna=False): the distinct values of the column, sorted
\* (sort=True is the default), a missing value last
GroupKeys(d, by) ==
    LET ks == {d[i][by] : i \in 1..Len(d)}
    IN  [k \in 1..Cardinality(ks) |->
            CHOOSE v \in ks : Cardinality({w \in ks : CatRank(w) < CatRank(v)}) = k - 1]

\* the rows of one group, in the recordset's order
Group(d, by, v) == LET in_group(r) == r[by] = v IN SelectSeq(d, in_group)

\* ("LoanID", "count"): the rows of the group whose LoanID is not missing (a
\* loaded row's LoanID is its position, from 1)
CountLoanID(g) == LET has_id(r) == r.LoanID >= 1 IN Len(SelectSeq(g, has_id))

\* a sort key of a table row, as a float
SortKey(row, col) == IF col = "count" THEN R(row.count) ELSE row[col]

\* a sorts strictly before b under sort_values(cols, ascending=[False, ...])
RECURSIVE Higher(_, _, _)
Higher(a, b, cols) ==
    /\ cols # <<>>
    /\ \/ RLt(SortKey(b, Head(cols)), SortKey(a, Head(cols)))
       \/ /\ SortKey(a, Head(cols)) = SortKey(b, Head(cols))
          /\ Higher(a, b, Tail(cols))

\* DataFrame.sort_values on several columns, all descending: a stable sort
\* (pandas sorts several keys with lexsort_indexer, which keeps equal rows in
\* their order).
RECURSIVE InsertStable(_, _, _)
InsertStable(s, x, cols) ==
    IF s = <<>> THEN <<x>>
    ELSE IF Higher(x, Head(s), cols) THEN <<x>> \o s
    ELSE <<Head(s)>> \o InsertStable(Tail(s), x, cols)

RECURSIVE sort_values(_, _)
sort_values(s, cols) ==
    IF s = <<>> THEN <<>>
    ELSE InsertStable(sort_values(SubSeq(s, 1, Len(s) - 1), cols), s[Len(s)], cols)

\* a plausible slip: the threshold itself excluded
meets_min_count_strict(count, min_count) == count > min_count

\* out["count"] >= min_count
meets_min_count(count, min_count) == count >= min_count

\* segment_default_rate: [by, default_rate, count] of every group with at least
\* min_count rows; an empty table for an empty recordset
segment_default_rate(d, by, min_count) ==
    IF d = <<>> THEN <<>>
    ELSE LET keys == GroupKeys(d, by)
             out == [k \in 1..Len(keys) |->
                        LET g == Group(d, by, keys[k])
                        IN  [by |-> keys[k],
                             default_rate |-> MeanInt(Column(g, "Default")),
                             count |-> CountLoanID(g)]]
             enough(row) == meets_min_count(row.count, min_count)
         IN  sort_values(SelectSeq(out, enough), <<"default_rate", "count">>)

\* Rows of the recordsets segment_default_rate is run on.
MaxRankRows == 5

\* The largest min_count a caller passes in the model.
MaxMinCount == 3

Dimensions == {"LoanPurpose", "EmploymentType"}

RankRows ==
    {[LoanPurpose |-> p, EmploymentType |-> "A", Default |-> dflt] :
        p \in {"A", "B", NA}, dflt \in {0, 1}}

InitRank == df = <<>> /\ call = NoCall /\ ret = <<>>

AddRankRow ==
    /\ Idle
    /\ Len(df) < MaxRankRows
    /\ \E r \in RankRows : df' = Append(df, WithLoanID(r, Len(df) + 1))
    /\ UNCHANGED <<call, ret>>

CallSegmentDefaultRate ==
    /\ Idle
    /\ \E by \in Dimensions, min_count \in 0..MaxMinCount :
          /\ call' = [op |-> "segment_default_rate", by |-> by, min_count |-> min_count]
          /\ ret' = segment_default_rate(df, by, min_count)
    /\ UNCHANGED df

NextRank == AddRankRow \/ CallSegmentDefaultRate

SpecRank == InitRank /\ [][NextRank]_vars

\* the rows of the recordset that hold value v in column by
RowsOf(d, by, v) == {i \in 1..Len(d) : d[i][by] = v}

\* C3: segment_default_rate returns exactly one row for each group with at
\* least min_count rows, none for a smaller group (and none for a value that is
\* no group), each with the group's own count and default rate, ordered by
\* default_rate descending and then by count descending.
C3_MinCountRanking ==
    call.op = "segment_default_rate" =>
        LET by == call.by
            n(v) == Cardinality(RowsOf(df, by, v))
            defaults(v) == Cardinality({i \in RowsOf(df, by, v) : df[i].Default = 1})
        IN  /\ \A v \in {"A", "B", NA} :
                  Cardinality({k \in 1..Len(ret) : ret[k].by = v})
                      = IF n(v) >= 1 /\ n(v) >= call.min_count THEN 1 ELSE 0
            /\ \A k \in 1..Len(ret) :
                  /\ ret[k].by \in {"A", "B", NA}
                  /\ ret[k].count = n(ret[k].by)
                  /\ ret[k].default_rate.n * n(ret[k].by)
                        = defaults(ret[k].by) * ret[k].default_rate.d
            /\ \A k \in 1..Len(ret) - 1 :
                  \/ RLt(ret[k + 1].default_rate, ret[k].default_rate)
                  \/ /\ ret[k].default_rate = ret[k + 1].default_rate
                     /\ ret[k].count >= ret[k + 1].count

\* C3's case: one group is suppressed and two are ranked, the one that groupby
\* lists later first.
C3_Witness ==
    /\ call.op = "segment_default_rate"
    /\ call.min_count = 2
    /\ Len(ret) = 2
    /\ Cardinality({df[i][call.by] : i \in 1..Len(df)}) = 3
    /\ CatRank(ret[1].by) > CatRank(ret[2].by)
    /\ RLt(ret[2].default_rate, ret[1].default_rate)

(***************************************************************************)
(* Risk enrichment and the aggregators: src/app.py, src/core/metrics.py,   *)
(* src/visualizations.py                                                   *)
(***************************************************************************)
\* the DTI ratio above which a loan is critical (app.py:33)
CRITICAL_DTI == Rat(40, 100)

\* enrich_risk: a copy of the recordset with risk_score, value_at_risk_item and
\* critical_dti added (risk_band, which no aggregator below reads, is left out)
enrich_risk(d) ==
    LET rs == compute_risk_score(d)
        crit == flag_critical_dti(d, CRITICAL_DTI)
    IN  [i \in 1..Len(d) |->
            [c \in DOMAIN d[i] \cup {"risk_score", "value_at_risk_item", "critical_dti"} |->
                CASE c = "risk_score" -> rs[i]
                  [] c = "value_at_risk_item" -> RMul(R(d[i].LoanAmount), rs[i])
                  [] c = "critical_dti" -> crit[i]
                  [] OTHER -> d[i][c]]]

\* a plausible slip: no guard for the empty recordset
compute_kpis_unguarded(d) ==
    [total_loans |-> Len(d),
     default_rate |-> MeanInt(Column(d, "Default")),
     avg_loan_amount |-> MeanInt(Column(d, "LoanAmount")),
     avg_credit_score |-> MeanInt(Column(d, "CreditScore")),
     avg_interest_rate |-> MeanInt(Column(d, "InterestRate"))]

\* compute_kpis
compute_kpis(d) ==
    IF d = <<>>
    THEN [total_loans |-> 0, default_rate |-> R(0), avg_loan_amount |-> R(0),
          avg_credit_score |-> R(0), avg_interest_rate |-> R(0)]
    ELSE [total_loans |-> Len(d),
          default_rate |-> MeanInt(Column(d, "Default")),
          avg_loan_amount |-> MeanInt(Column(d, "LoanAmount")),
          avg_credit_score |-> MeanInt(Column(d, "CreditScore")),
          avg_interest_rate |-> MeanInt(Column(d, "InterestRate"))]

\* the number of True values of a boolean series
CountTrue(s) == Cardinality({i \in 1..Len(s) : s[i]})

\* a plausible slip: the deltas taken as baseline minus current
compute_panorama_kpis_base_minus_cur(df_cur, df_base) ==
    LET default_rate(d) == MeanInt(Column(d, "Default"))
        var(d) == compute_value_at_risk(d, Column(d, "risk_score"))
        score(d) == MeanInt(Column(d, "CreditScore"))
        crit_rate(d) == Rat(CountTrue(Column(d, "critical_dti")), Len(d))
    IN  [default_rate_cur |-> default_rate(df_cur),
         var_cur |-> var(df_cur),
         score_cur |-> score(df_cur),
         crit_rate_cur |-> crit_rate(df_cur),
         crit_count_cur |-> CountTrue(Column(df_cur, "critical_dti")),
         default_rate_base |-> default_rate(df_base),
         var_base |-> var(df_base),
         score_base |-> score(df_base),
         crit_rate_base |-> crit_rate(df_base),
         d_default |-> RSub(default_rate(df_base), default_rate(df_cur)),
         d_var |-> RSub(var(df_base), var(df_cur)),
         d_score |-> RSub(score(df_base), score(df_cur)),
         d_crit |-> RSub(crit_rate(df_base), crit_rate(df_cur))]

\* compute_panorama_kpis: no guard for an empty recordset, a mean of nothing is NaN
compute_panorama_kpis(df_cur, df_base) ==
    LET default_rate_cur == MeanInt(Column(df_cur, "Default"))
        var_cur == compute_value_at_risk(df_cur, Column(df_cur, "risk_score"))
        score_cur == MeanInt(Column(df_cur, "CreditScore"))
        crit_rate_cur == Rat(CountTrue(Column(df_cur, "critical_dti")), Len(df_cur))
        crit_count_cur == CountTrue(Column(df_cur, "critical_dti"))
        default_rate_base == MeanInt(Column(df_base, "Default"))
        var_base == compute_value_at_risk(df_base, Column(df_base, "risk_score"))
        score_base == MeanInt(Column(df_base, "CreditScore"))
        crit_rate_base == Rat(CountTrue(Column(df_base, "critical_dti")), Len(df_base))
    IN  [default_rate_cur |-> default_rate_cur,
         var_cur |-> var_cur,
         score_cur |-> score_cur,
         crit_rate_cur |-> crit_rate_cur,
         crit_count_cur |-> crit_count_cur,
         default_rate_base |-> default_rate_base,
         var_base |-> var_base,
         score_base |-> score_base,
         crit_rate_base |-> crit_rate_base,
         d_default |-> RSub(default_rate_cur, default_rate_base),
         d_var |-> RSub(var_cur, var_base),
         d_score |-> RSub(score_cur, score_base),
         d_crit |-> RSub(crit_rate_cur, crit_rate_base)]

RECURSIVE InsertRat(_, _)
InsertRat(x, s) ==
    IF s = <<>> THEN <<x>>
    ELSE IF RLe(x, Head(s)) THEN <<x>> \o s
    ELSE <<Head(s)>> \o InsertRat(x, Tail(s))

RECURSIVE SortRats(_)
SortRats(s) == IF s = <<>> THEN <<>> ELSE InsertRat(Head(s), SortRats(Tail(s)))

\* Series.median() of a non-empty series of floats
median(s) ==
    LET srt == SortRats(s)
        n == Len(s)
    IN  IF n % 2 = 1 THEN srt[(n + 1) \div 2]
        ELSE RDiv(RAdd(srt[n \div 2], srt[n \div 2 + 1]), R(2))

AsFloats(s) == [i \in 1..Len(s) |-> R(s[i])]

\* mode_or_na: the most frequent value that is not missing (the smallest of
\* them on a tie), "N/A" when every value is missing
mode_or_na(s) ==
    LET vals == {s[i] : i \in 1..Len(s)} \ {NA}
        freq(v) == Cardinality({i \in 1..Len(s) : s[i] = v})
    IN  IF vals = {} THEN "N/A"
        ELSE CHOOSE v \in vals :
                \A w \in vals : freq(w) < freq(v) \/ (freq(w) = freq(v) /\ CatRank(v) <= CatRank(w))

\* a plausible slip: the division left unguarded
risk_share_unguarded(var_sum, total_var) == RDiv(var_sum, total_var)

\* (out["var_sum"] / total_var) if total_var > 0 else 0.0
risk_share(var_sum, total_var) ==
    IF RLt(R(0), total_var) THEN RDiv(var_sum, total_var) ELSE R(0)

\* build_segment_profile: one row for each group, with its share of the total
\* value at risk, sorted by var_sum, default_rate and count, all descending; an
\* empty table for an empty recordset
build_segment_profile(d, by) ==
    IF d = <<>> THEN <<>>
    ELSE LET keys == GroupKeys(d, by)
             agg == [k \in 1..Len(keys) |->
                        LET g == Group(d, by, keys[k])
                        IN  [by |-> keys[k],
                             count |-> CountLoanID(g),
                             default_rate |-> MeanInt(Column(g, "Default")),
                             var_sum |-> SumRat(Column(g, "value_at_risk_item")),
                             age_med |-> median(AsFloats(Column(g, "Age"))),
                             income_med |-> median(AsFloats(Column(g, "Income"))),
                             score_med |-> median(AsFloats(Column(g, "CreditScore"))),
                             dti_med |-> median(Column(g, "DTIRatio")),
                             emp_mode |-> mode_or_na(Column(g, "EmploymentType")),
                             edu_mode |-> mode_or_na(Column(g, "Education")),
                             mar_mode |-> mode_or_na(Column(g, "MaritalStatus"))]]
             var_total == SumRat(Column(agg, "var_sum"))
             total_var == IF var_total # R(0) THEN var_total ELSE R(0)
             out == [k \in 1..Len(agg) |->
                        [c \in DOMAIN agg[k] \cup {"risk_share"} |->
                            IF c = "risk_share" THEN risk_share(agg[k].var_sum, total_var)
                            ELSE agg[k][c]]]
         IN  sort_values(out, <<"var_sum", "default_rate", "count">>)

\* Two loan profiles: a loan that scores 0 when no interest rate of its recordset
\* is lower than its own, and a riskier one.
Profiles ==
    {[Age |-> 30, Income |-> 5000, LoanAmount |-> 1000, CreditScore |-> 850,
      InterestRate |-> 10, DTIRatio |-> R(0), Education |-> "A",
      EmploymentType |-> "A", MaritalStatus |-> "A"],
     [Age |-> 40, Income |-> 4000, LoanAmount |-> 2000, CreditScore |-> 575,
      InterestRate |-> 15, DTIRatio |-> Rat(1, 2), Education |-> "B",
      EmploymentType |-> "B", MaritalStatus |-> NA]}

AggRows ==
    {[c \in DOMAIN pr \cup {"LoanPurpose", "Default"} |->
        IF c = "LoanPurpose" THEN p ELSE IF c = "Default" THEN dflt ELSE pr[c]] :
        pr \in Profiles, p \in {"A", "B", NA}, dflt \in {0, 1}}

\* the rows of d at the positions keep, in order: what a filter leaves of d
SubRecordset(d, keep) ==
    LET F[i \in 0..Len(d)] ==
            IF i = 0 THEN <<>>
            ELSE IF i \in keep THEN Append(F[i - 1], d[i]) ELSE F[i - 1]
    IN  F[Len(d)]

InitAgg == df = <<>> /\ call = NoCall /\ ret = <<>>

AddAggRow ==
    /\ Idle
    /\ Len(df) < MaxRows
    /\ \E r \in AggRows : df' = Append(df, WithLoanID(r, Len(df) + 1))
    /\ UNCHANGED <<call, ret>>

CallComputeKpis ==
    /\ Idle
    /\ call' = [op |-> "compute_kpis"]
    /\ ret' = compute_kpis(df)
    /\ UNCHANGED df

\* render_problema: the profile of the risk-enriched recordset
CallBuildSegmentProfile ==
    /\ Idle
    /\ \E by \in Dimensions :
          /\ call' = [op |-> "build_segment_profile", by |-> by]
          /\ ret' = build_segment_profile(enrich_risk(df), by)
    /\ UNCHANGED df

\* render_panorama: df is the baseline, the current view a part of it
CallComputePanoramaKpis ==
    /\ Idle
    /\ \E keep \in SUBSET (1..Len(df)) :
          LET cur == SubRecordset(df, keep)
          IN  /\ call' = [op |-> "compute_panorama_kpis", cur |-> cur]
              /\ ret' = compute_panorama_kpis(enrich_risk(cur), enrich_risk(df))
    /\ UNCHANGED df

NextAgg == AddAggRow \/ CallComputeKpis \/ CallBuildSegmentProfile

SpecAgg == InitAgg /\ [][NextAgg]_vars

\* every aggregator, on the same recordsets
NextAggregators ==
    \/ AddAggRow
    \/ CallComputeKpis
    \/ CallSegmentDefaultRate
    \/ CallBuildSegmentProfile
    \/ CallComputePanoramaKpis

SpecAggregators == InitAgg /\ [][NextAggregators]_vars

\* C5 as stated: the profile is ordered by var_sum, default_rate and count, all
\* descending, and segments equal on all three are in the order in which their
\* group value first appears in the recordset.
FirstRow(d, by, v) == CHOOSE i \in 1..Len(d) : d[i][by] = v /\ \A j \in 1..(i - 1) : d[j][by] # v

DescendingThen(a, b, tie_break) ==
    \/ RLt(b.var_sum, a.var_sum)
    \/ /\ a.var_sum = b.var_sum
       /\ \/ RLt(b.default_rate, a.default_rate)
          \/ /\ a.default_rate = b.default_rate
             /\ \/ a.count > b.count
                \/ a.count = b.count /\ tie_break

TiedSegments(a, b) ==
    a.var_sum = b.var_sum /\ a.default_rate = b.default_rate /\ a.count = b.count

C5_TiesInEmergenceOrder ==
    call.op = "build_segment_profile" =>
        \A k \in 1..Len(ret) - 1 :
            DescendingThen(ret[k], ret[k + 1],
                           FirstRow(df, call.by, ret[k].by) < FirstRow(df, call.by, ret[k + 1].by))

\* C5, amended: the profile is ordered by var_sum, default_rate and count, all
\* descending, and segments equal on all three are in ascending order of their
\* group value, a missing value last (the order groupby lists the groups in).
C5_TiesInGroupValueOrder ==
    call.op = "build_segment_profile" =>
        \A k \in 1..Len(ret) - 1 :
            DescendingThen(ret[k], ret[k + 1], CatRank(ret[k].by) < CatRank(ret[k + 1].by))

\* C5's case: two segments equal on all three keys, the one that appears later
\* in the recordset listed first, below a segment with a larger var_sum.
C5_Witness ==
    /\ call.op = "build_segment_profile"
    /\ Len(ret) = 3
    /\ RLt(ret[2].var_sum, ret[1].var_sum)
    /\ TiedSegments(ret[2], ret[3])
    /\ FirstRow(df, call.by, ret[3].by) < FirstRow(df, call.by, ret[2].by)

\* C6: each risk_share is var_sum over the total var_sum of all groups, which
\* is the recordset's total value at risk; the shares sum to 1 when that total
\* is greater than 0, and every share is 0 when it is 0; no share is undefined.
C6_RiskShares ==
    call.op = "build_segment_profile" =>
        LET total == SumRat(Column(ret, "var_sum"))
            shares == Column(ret, "risk_share")
        IN  /\ total = SumRat(Column(enrich_risk(df), "value_at_risk_item"))
            /\ \A k \in 1..Len(ret) : ~IsNaN(shares[k])
            /\ RLt(R(0), total) =>
                  /\ \A k \in 1..Len(ret) : RMul(shares[k], total) = ret[k].var_sum
                  /\ SumRat(shares) = R(1)
            /\ total = R(0) => \A k \in 1..Len(ret) : shares[k] = R(0)

\* C6's case: a profile of two segments that share a positive total value at
\* risk two to one.
C6_Witness ==
    /\ call.op = "build_segment_profile"
    /\ Len(ret) = 2
    /\ RLt(R(0), ret[1].var_sum)
    /\ ret[1].risk_share = Rat(2, 3)
    /\ ret[2].risk_share = Rat(1, 3)

\* C7: compute_kpis reports the number of rows and the mean of Default over
\* them; for a zero-row recordset the count, the default rate and every
\* average are 0.
C7_Kpis ==
    call.op = "compute_kpis" =>
        /\ ret.total_loans = Len(df)
        /\ Len(df) > 0 =>
              /\ ~IsNaN(ret.default_rate)
              /\ ret.default_rate.n * Len(df)
                    = Cardinality({i \in 1..Len(df) : df[i].Default = 1}) * ret.default_rate.d
        /\ Len(df) = 0 =>
              /\ ret.default_rate = R(0)
              /\ ret.avg_loan_amount = R(0)
              /\ ret.avg_credit_score = R(0)
              /\ ret.avg_interest_rate = R(0)

\* C7's case: the KPIs of a recordset in which two loans of three defaulted.
C7_Witness ==
    /\ call.op = "compute_kpis"
    /\ ret.total_loans = 3
    /\ ret.default_rate = Rat(2, 3)

\* C8: for a zero-row current recordset the panorama KPIs are all 0, and the
\* segment profile and the minimum-volume ranking of a zero-row recordset are
\* empty tables.
C8_ZeroRowsGiveZeros ==
    /\ call.op = "compute_panorama_kpis" /\ call.cur = <<>> =>
          /\ ret.default_rate_cur = R(0)
          /\ ret.var_cur = R(0)
          /\ ret.score_cur = R(0)
          /\ ret.crit_rate_cur = R(0)
          /\ ret.crit_count_cur = 0
    /\ call.op = "build_segment_profile" /\ df = <<>> => ret = <<>>
    /\ call.op = "segment_default_rate" /\ df = <<>> => ret = <<>>

(***************************************************************************)
(* Action ranker: src/app.py, render_acao                                  *)
(***************************************************************************)
\* The largest Top N of the model (the slider's 50..2000 in steps of 50, scaled
\* to recordsets of a few rows).
MaxTopN == 3

SortColumns == {"risk_score", "value_at_risk_item"}

\* the columns of the action list (LoanID is hidden; risk_band is not modelled)
ViewCols ==
    {"risk_score", "value_at_risk_item", "critical_dti", "Default", "LoanAmount", "Income",
     "CreditScore", "DTIRatio", "InterestRate", "LoanTerm", "LoanPurpose", "EmploymentType",
     "Education", "MaritalStatus"}

\* the orders sort_values([sort_by], ascending=False) may leave the rows in: one
\* key is sorted with quicksort, which promises no order among equal keys
SortedOrders(d, sort_by) ==
    {p \in [1..Len(d) -> 1..Len(d)] :
        /\ \A i, j \in 1..Len(d) : i # j => p[i] # p[j]
        /\ \A i \in 1..Len(d) - 1 : RLe(d[p[i + 1]][sort_by], d[p[i]][sort_by])}

\* DataFrame.head(n)
head(d, n) == SubSeq(d, 1, IF n < Len(d) THEN n ELSE Len(d))

\* render_acao's list, for one of the orders the sort may produce: sort, keep
\* the first top_n, and only then drop the rows that are not critical
action_list(d, order, top_n, only_critical) ==
    LET sorted == [i \in 1..Len(d) |-> d[order[i]]]
        top == head(sorted, top_n)
        is_critical(r) == r.critical_dti
        action == IF only_critical THEN SelectSeq(top, is_critical) ELSE top
    IN  [i \in 1..Len(action) |-> [c \in ViewCols \cap DOMAIN action[i] |-> action[i][c]]]

\* A loan with a good score and a critical DTI, and one with a bad score and a
\* DTI below the threshold, each at two amounts and two interest rates.
ActionRows ==
    {[Age |-> 30, Income |-> 5000, LoanAmount |-> amount, CreditScore |-> pr[1],
      InterestRate |-> ir, DTIRatio |-> pr[2], LoanTerm |-> 36, Default |-> 0,
      LoanPurpose |-> "A", Education |-> "A", EmploymentType |-> "A", MaritalStatus |-> "A"] :
        pr \in {<<850, Rat(1, 2)>>, <<300, Rat(3, 10)>>},
        amount \in {1000, 3000},
        ir \in {10, 15}}

InitAction == df = <<>> /\ call = NoCall /\ ret = <<>>

AddActionRow ==
    /\ Idle
    /\ Len(df) < MaxRows
    /\ \E r \in ActionRows : df' = Append(df, WithLoanID(r, Len(df) + 1))
    /\ UNCHANGED <<call, ret>>

\* render_acao(df_cur), df_cur the risk-enriched recordset
RenderAcao ==
    /\ Idle
    /\ \E top_n \in 1..MaxTopN, only_critical \in BOOLEAN, sort_by \in SortColumns :
          \E order \in SortedOrders(enrich_risk(df), sort_by) :
              /\ call' = [op |-> "render_acao", top_n |-> top_n,
                          only_critical |-> only_critical, sort_by |-> sort_by]
              /\ ret' = action_list(enrich_risk(df), order, top_n, only_critical)
    /\ UNCHANGED df

NextAction == AddActionRow \/ RenderAcao

SpecAction == InitAction /\ [][NextAction]_vars

\* C2: with only_critical set the list holds the top_n highest-keyed critical
\* rows of the recordset: min(top_n, number of critical rows) rows, all
\* critical, in descending order of the key, and no critical row left out has a
\* higher key than a listed one.
C2_TopNOfCriticalRows ==
    call.op = "render_acao" /\ call.only_critical =>
        LET cur == enrich_risk(df)
            crit == {i \in 1..Len(cur) : cur[i].critical_dti}
            keys(rows) == [k \in {cur[i][call.sort_by] : i \in rows} |->
                              Cardinality({i \in rows : cur[i][call.sort_by] = k})]
            n == IF call.top_n < Cardinality(crit) THEN call.top_n ELSE Cardinality(crit)
        IN  /\ Len(ret) = n
            /\ \A k \in 1..Len(ret) : ret[k].critical_dti
            /\ \A k \in 1..Len(ret) - 1 : RLe(ret[k + 1][call.sort_by], ret[k][call.sort_by])
            /\ \E top \in SUBSET crit :
                  /\ Cardinality(top) = n
                  /\ \A i \in top, j \in crit \ top :
                        RLe(cur[j][call.sort_by], cur[i][call.sort_by])
                  /\ \A k \in DOMAIN keys(top) :
                        keys(top)[k] = Cardinality({m \in 1..Len(ret) : ret[m][call.sort_by] = k})

(***************************************************************************)
(* Dataset loader: src/database/loader.py                                  *)
(***************************************************************************)
REQUIRED_COLUMNS ==
    <<"LoanID", "Age", "Income", "LoanAmount", "CreditScore", "MonthsEmployed",
      "NumCreditLines", "InterestRate", "LoanTerm", "DTIRatio", "Education",
      "EmploymentType", "MaritalStatus", "HasMortgage", "HasDependents", "LoanPurpose",
      "HasCoSigner", "Default">>

Range(s) == {s[i] : i \in 1..Len(s)}

\* the columns normalize_binary_yes_no rewrites, in its order
YesNoCols == <<"HasMortgage", "HasDependents", "HasCoSigner">>

\* Rows of the CSV file in the model.
MaxRawRows == 1

\* Required columns the CSV file may lack in the model.
MaxMissing == 2

\* the texts of a Yes/No cell: the two expected ones, one padded with blanks,
\* one unexpected
RawValues == {"Yes", "No", " Yes ", "Y"}

\* str.strip()
strip(v) == IF v = " Yes " THEN "Yes" ELSE v

\* a plausible slip: a text that is no key of the map coerced to 0
yn_map_coercing(v) == IF v = "Yes" THEN R(1) ELSE R(0)

\* Series.map(yn_map): a float column, NaN for a text that is no key of the map
yn_map(v) == IF v = "Yes" THEN R(1) ELSE IF v = "No" THEN R(0) ELSE NaN

\* astype(int) of a float that is a whole number
astype_int(x) == x.n

\* normalize_binary_yes_no from column k of YesNoCols on: KeyError for a column
\* the table lacks, ValueError for a column with an unexpected text, else the
\* table with the columns rewritten to 1/0
RECURSIVE normalize_from(_, _)
normalize_from(t, k) ==
    IF k > Len(YesNoCols) THEN [status |-> "ok", table |-> t]
    ELSE LET col == YesNoCols[k]
             mapped == [i \in 1..Len(t.rows) |-> yn_map(strip(t.rows[i][col]))]
             cast == [i \in 1..Len(t.rows) |->
                         [t.rows[i] EXCEPT ![col] = astype_int(mapped[i])]]
         IN  IF col \notin t.columns THEN [status |-> "KeyError", key |-> col]
             ELSE IF \E i \in 1..Len(mapped) : IsNaN(mapped[i])
             THEN [status |-> "ValueError", message |-> "Unexpected values", column |-> col]
             ELSE normalize_from([t EXCEPT !.rows = cast], k + 1)

normalize_binary_yes_no(t) == normalize_from(t, 1)

\* _validate_schema: the required columns the table lacks, in REQUIRED_COLUMNS'
\* order; the error names them
missing_columns(t, required) == LET absent(c) == c \notin t.columns IN SelectSeq(required, absent)

\* load_dataset: find the file, read it, normalize the Yes/No columns, and only
\* then validate the schema
load_dataset(t) ==
    IF ~t.found THEN [status |-> "FileNotFoundError"]
    ELSE LET normalized == normalize_binary_yes_no(t)
         IN  IF normalized.status # "ok" THEN normalized
             ELSE IF missing_columns(normalized.table, REQUIRED_COLUMNS) # <<>>
             THEN [status |-> "ValueError", message |-> "Dataset schema mismatch",
                   missing |-> missing_columns(normalized.table, REQUIRED_COLUMNS)]
             ELSE normalized

\* the Yes/No cells of a CSV row: all "No", or one of them another text
RawRows ==
    LET base == [c \in Range(YesNoCols) |-> "No"]
    IN  {base} \cup UNION {{[base EXCEPT ![c] = v] : v \in RawValues} : c \in Range(YesNoCols)}

\* The CSV file: whether it is found, its columns and its rows.
InitLoad ==
    /\ df = [found |-> TRUE, columns |-> Range(REQUIRED_COLUMNS), rows |-> <<>>]
    /\ call = NoCall
    /\ ret = <<>>

AddRawRow ==
    /\ Idle
    /\ df.columns = Range(REQUIRED_COLUMNS)
    /\ Len(df.rows) < MaxRawRows
    /\ \E r \in RawRows : df' = [df EXCEPT !.rows = Append(@, r)]
    /\ UNCHANGED <<call, ret>>

\* a file that lacks a column: no row has a cell for it
DropColumn ==
    /\ Idle
    /\ Cardinality(Range(REQUIRED_COLUMNS) \ df.columns) < MaxMissing
    /\ \E c \in df.columns :
          df' = [df EXCEPT !.columns = @ \ {c},
                           !.rows = [i \in 1..Len(@) |->
                                        [x \in DOMAIN @[i] \ {c} |-> @[i][x]]]]
    /\ UNCHANGED <<call, ret>>

RemoveCsv ==
    /\ Idle
    /\ df.found
    /\ df' = [df EXCEPT !.found = FALSE]
    /\ UNCHANGED <<call, ret>>

CallLoadDataset ==
    /\ Idle
    /\ call' = [op |-> "load_dataset"]
    /\ ret' = load_dataset(df)
    /\ UNCHANGED df

NextLoad == AddRawRow \/ DropColumn \/ RemoveCsv \/ CallLoadDataset

SpecLoad == InitLoad /\ [][NextLoad]_vars

\* C10: whenever the table read from the file lacks required columns,
\* load_dataset fails with the schema-mismatch error that names exactly the
\* missing columns.
C10_MissingColumnsNamed ==
    call.op = "load_dataset" /\ df.found /\ df.columns # Range(REQUIRED_COLUMNS) =>
        /\ ret.status = "ValueError"
        /\ ret.message = "Dataset schema mismatch"
        /\ Range(ret.missing) = Range(REQUIRED_COLUMNS) \ df.columns

(***************************************************************************)
(* Panorama deltas: src/app.py, compute_panorama_kpis                      *)
(***************************************************************************)
\* rows of the baseline; the current view is any part of it, so two rows give
\* every relation between the two recordsets (equal, a part, empty)
MaxPanoramaRows == 2

AddPanoramaRow ==
    /\ Idle
    /\ Len(df) < MaxPanoramaRows
    /\ \E r \in AggRows : df' = Append(df, WithLoanID(r, Len(df) + 1))
    /\ UNCHANGED <<call, ret>>

NextPanorama == AddPanoramaRow \/ CallComputePanoramaKpis

SpecPanorama == InitAgg /\ [][NextPanorama]_vars

\* C11: each delta of compute_panorama_kpis is the current recordset's value
\* minus the baseline recordset's value, the values being those of the
\* risk-enriched current and baseline recordsets; when the two recordsets are
\* identical and not empty every delta is 0.
C11_DeltasAreCurrentMinusBaseline ==
    call.op = "compute_panorama_kpis" =>
        LET cur == enrich_risk(call.cur)
            base == enrich_risk(df)
        IN  /\ ret.default_rate_cur = MeanInt(Column(call.cur, "Default"))
            /\ ret.default_rate_base = MeanInt(Column(df, "Default"))
            /\ ret.var_cur = SumRat(Column(cur, "value_at_risk_item"))
            /\ ret.var_base = SumRat(Column(base, "value_at_risk_item"))
            /\ ret.score_cur = MeanInt(Column(call.cur, "CreditScore"))
            /\ ret.score_base = MeanInt(Column(df, "CreditScore"))
            /\ ret.crit_rate_cur = Rat(CountTrue(Column(cur, "critical_dti")), Len(cur))
            /\ ret.crit_rate_base = Rat(CountTrue(Column(base, "critical_dti")), Len(base))
            /\ ret.d_default = RSub(ret.default_rate_cur, ret.default_rate_base)
            /\ ret.d_var = RSub(ret.var_cur, ret.var_base)
            /\ ret.d_score = RSub(ret.score_cur, ret.score_base)
            /\ ret.d_crit = RSub(ret.crit_rate_cur, ret.crit_rate_base)
            /\ call.cur # <<>> =>
                  /\ RAdd(ret.default_rate_base, ret.d_default) = ret.default_rate_cur
                  /\ RAdd(ret.var_base, ret.d_var) = ret.var_cur
                  /\ RAdd(ret.score_base, ret.d_score) = ret.score_cur
                  /\ RAdd(ret.crit_rate_base, ret.d_crit) = ret.crit_rate_cur
            /\ call.cur = df /\ df # <<>> =>
                  /\ ret.d_default = R(0)
                  /\ ret.d_var = R(0)
                  /\ ret.d_score = R(0)
                  /\ ret.d_crit = R(0)

\* C11's case: the panorama of a current view identical to a baseline of two
\* loans, one of them critical and in default, with a positive value at risk.
C11_Witness ==
    /\ call.op = "compute_panorama_kpis"
    /\ call.cur = df
    /\ Len(df) = 2
    /\ ret.default_rate_cur = Rat(1, 2)
    /\ ret.crit_count_cur = 1
    /\ RLt(R(0), ret.var_cur)
    /\ ret.d_default = R(0)
    /\ ret.d_var = R(0)
    /\ ret.d_score = R(0)
    /\ ret.d_crit = R(0)

(***************************************************************************)
(* Degenerate percentiles: src/core/risk.py, compute_risk_score            *)
(***************************************************************************)
\* C13: when the 5th and the 95th percentile of the interest rates of the
\* scored recordset are equal, the interest-rate component of every row is 0
\* and its score is clip(0.45 * dti component + 0.35 * credit risk component,
\* 0, 1), a number.
C13_DegeneratePercentiles ==
    call.op = "compute_risk_score" /\ p5(df) = p95(df) =>
        \A i \in 1..Len(df) :
            /\ ir_norm(df[i].InterestRate, p5(df), p95(df)) = R(0)
            /\ ~IsNaN(ret[i])
            /\ ret[i] = clip(RAdd(RMul(Rat(45, 100), dti_component(df[i])),
                                  RMul(Rat(35, 100), credit_risk_component(df[i]))),
                             R(0), R(1))

\* C13's case: three scored loans with the same interest rate, which is not 0,
\* one of them with a score strictly between 0 and 1.
C13_Witness ==
    /\ call.op = "compute_risk_score"
    /\ Len(df) = 3
    /\ \A i \in 1..3 : df[i].InterestRate = 20
    /\ p5(df) = p95(df)
    /\ \E i \in 1..3 : ret[i] = Rat(71, 200)
    /\ \E i \in 1..3 : ret[i] = Rat(4, 5)

(***************************************************************************)
(* Critical DTI flag: src/core/risk.py, flag_critical_dti                  *)
(***************************************************************************)
MaxCriticalRows == 5

\* the DTI ratios of five loans around the default threshold, and one above 1
CriticalRows ==
    {[DTIRatio |-> dti] :
        dti \in {Rat(1, 5), Rat(2, 5), Rat(1, 4), Rat(1, 2), Rat(9, 20), Rat(3, 2)}}

\* the default threshold, and two others
Thresholds == {CRITICAL_DTI, Rat(1, 2), R(1)}

InitCritical == df = <<>> /\ call = NoCall /\ ret = <<>>

AddCriticalRow ==
    /\ Idle
    /\ Len(df) < MaxCriticalRows
    /\ \E r \in CriticalRows : df' = Append(df, WithLoanID(r, Len(df) + 1))
    /\ UNCHANGED <<call, ret>>

CallFlagCriticalDti ==
    /\ Idle
    /\ \E threshold \in Thresholds :
          /\ call' = [op |-> "flag_critical_dti", threshold |-> threshold]
          /\ ret' = flag_critical_dti(df, threshold)
    /\ UNCHANGED df

NextCritical == AddCriticalRow \/ CallFlagCriticalDti

SpecCritical == InitCritical /\ [][NextCritical]_vars

\* C14: flag_critical_dti marks a row exactly when its DTIRatio as given, not
\* clipped, is strictly greater than the threshold; a DTIRatio equal to the
\* threshold is not marked; the critical count is the number of such rows.
C14_StrictlyAboveThreshold ==
    call.op = "flag_critical_dti" =>
        LET above(i) ==
                df[i].DTIRatio.n * call.threshold.d > call.threshold.n * df[i].DTIRatio.d
        IN  /\ Len(ret) = Len(df)
            /\ \A i \in 1..Len(df) :
                  /\ ret[i] <=> above(i)
                  /\ df[i].DTIRatio = call.threshold => ~ret[i]
            /\ CountTrue(ret) = Cardinality({i \in 1..Len(df) : above(i)})

\* C14's case: the DTI ratios 0.2, 0.4, 0.25, 0.5, 0.45 against the default
\* threshold 0.40: only the last two loans are critical.
C14_Witness ==
    /\ call.op = "flag_critical_dti"
    /\ call.threshold = Rat(2, 5)
    /\ Column(df, "DTIRatio") = <<Rat(1, 5), Rat(2, 5), Rat(1, 4), Rat(1, 2), Rat(9, 20)>>
    /\ ret = <<FALSE, FALSE, FALSE, TRUE, TRUE>>
    /\ CountTrue(ret) = 2

(***************************************************************************)
(* Yes/No normalization: src/database/loader.py, normalize_binary_yes_no   *)
(***************************************************************************)
MaxYesNoRows == 2

\* the Yes/No cells of a CSV row, each of them any text of RawValues
YesNoRows == [Range(YesNoCols) -> RawValues]

AddYesNoRow ==
    /\ Idle
    /\ Len(df.rows) < MaxYesNoRows
    /\ \E r \in YesNoRows : df' = [df EXCEPT !.rows = Append(@, r)]
    /\ UNCHANGED <<call, ret>>

CallNormalizeBinaryYesNo ==
    /\ Idle
    /\ call' = [op |-> "normalize_binary_yes_no"]
    /\ ret' = normalize_binary_yes_no(df)
    /\ UNCHANGED df

NextNormalize == AddYesNoRow \/ CallNormalizeBinaryYesNo

SpecNormalize == InitLoad /\ [][NextNormalize]_vars

\* the Yes/No cells of the table given to normalize_binary_yes_no
Cells == (1..Len(df.rows)) \X Range(YesNoCols)

\* C15 as stated: normalize_binary_yes_no raises an error and returns no table
\* if any Yes/No cell is not exactly the text "Yes" or "No"; otherwise it
\* returns the table with every "Yes" as 1 and every "No" as 0.
C15_ExactYesNoOrError ==
    call.op = "normalize_binary_yes_no" =>
        IF \A x \in Cells : df.rows[x[1]][x[2]] \in {"Yes", "No"}
        THEN /\ ret.status = "ok"
             /\ \A x \in Cells :
                   ret.table.rows[x[1]][x[2]] = IF df.rows[x[1]][x[2]] = "Yes" THEN 1 ELSE 0
        ELSE ret.status # "ok" /\ "table" \notin DOMAIN ret

\* C15, amended: normalize_binary_yes_no raises an error and returns no table
\* if any Yes/No cell, with the blanks around it removed, is not the text "Yes"
\* or "No"; otherwise it returns the table with every such "Yes" as 1 and
\* every such "No" as 0, a padded text included.
C15_StrippedYesNoOrError ==
    call.op = "normalize_binary_yes_no" =>
        LET text(x) == IF df.rows[x[1]][x[2]] = " Yes " THEN "Yes" ELSE df.rows[x[1]][x[2]]
        IN  IF \A x \in Cells : text(x) \in {"Yes", "No"}
            THEN /\ ret.status = "ok"
                 /\ Len(ret.table.rows) = Len(df.rows)
                 /\ \A x \in Cells :
                       ret.table.rows[x[1]][x[2]] = IF text(x) = "Yes" THEN 1 ELSE 0
            ELSE /\ ret.status = "ValueError"
                 /\ ret.message = "Unexpected values"
                 /\ \E i \in 1..Len(df.rows) : df.rows[i][ret.column] \notin {"Yes", "No", " Yes "}
                 /\ "table" \notin DOMAIN ret

\* C15's case: a table of two rows, one with a padded " Yes " and no
\* unexpected text, normalized to 1/0.
C15_Witness ==
    /\ call.op = "normalize_binary_yes_no"
    /\ Len(df.rows) = 2
    /\ df.rows[1].HasMortgage = " Yes "
    /\ df.rows[2].HasMortgage = "No"
    /\ df.rows[2].HasCoSigner = "Yes"
    /\ ret.status = "ok"
    /\ ret.table.rows[1].HasMortgage = 1
    /\ ret.table.rows[2].HasMortgage = 0
    /\ ret.table.rows[2].HasCoSigner = 1

(***************************************************************************)
(* Baseline and current view: src/app.py, main                             *)
(***************************************************************************)
MaxScoredRows == 2

\* the loans of the dataset main scores: two DTI ratios, two credit scores and
\* three interest rates
ScoredRows ==
    {[DTIRatio |-> dti, CreditScore |-> cs, InterestRate |-> ir, LoanAmount |-> 1000] :
        dti \in {Rat(2, 5), Rat(3, 2)}, cs \in {200, 575}, ir \in {-5, 10, 20}}

\* the Filter Specification main passes on: the interest-rate and the credit
\* score range, one of them moved from the full extent of ScoredRows
FullExtent == [interest_rate_range |-> <<-5, 20>>, credit_score_range |-> <<200, 575>>]

SmartFilters ==
    {[FullExtent EXCEPT !.interest_rate_range = rg] :
        rg \in {x \in {-5, 10, 20} \X {-5, 10, 20} : x[1] <= x[2]}}
    \cup
    {[FullExtent EXCEPT !.credit_score_range = rg] :
        rg \in {x \in {200, 575} \X {200, 575} : x[1] <= x[2]}}

\* apply_smart_filters: the rows inside every range, both ends included, in
\* their original order
apply_smart_filters(d, f) ==
    LET keep(r) ==
            /\ between(r.InterestRate, f.interest_rate_range)
            /\ between(r.CreditScore, f.credit_score_range)
    IN  SelectSeq(d, keep)

\* a plausible slip: one score for each loan, computed over the full dataset
\* and reused for the current view
main_enrich_shared_score(d, d_f) ==
    LET scored == enrich_risk(d)
        kept(r) == \E j \in 1..Len(d_f) : d_f[j].LoanID = r.LoanID
    IN  [df_base |-> scored, df_cur |-> SelectSeq(scored, kept)]

\* main, "Enrich risk (baseline + filtered)": each recordset enriched on its own
main_enrich(d, d_f) == [df_base |-> enrich_risk(d), df_cur |-> enrich_risk(d_f)]

\* main from the filters to the two enriched recordsets; it stops before them
\* when the filters leave no row
MainEnrich ==
    /\ Idle
    /\ \E f \in SmartFilters :
          LET df_f == apply_smart_filters(df, f)
          IN  /\ df_f # <<>>
              /\ call' = [op |-> "main_enrich", f |-> f, df_f |-> df_f]
              /\ ret' = main_enrich(df, df_f)
    /\ UNCHANGED df

AddScoredRow ==
    /\ Idle
    /\ Len(df) < MaxScoredRows
    /\ \E r \in ScoredRows : df' = Append(df, WithLoanID(r, Len(df) + 1))
    /\ UNCHANGED <<call, ret>>

NextScoring == AddScoredRow \/ MainEnrich

SpecScoring == InitRisk /\ [][NextScoring]_vars

\* the part of a score that comes from the loan's own DTI ratio and credit score
OwnPart(row) ==
    RAdd(RMul(W_DTI, dti_component(row)), RMul(W_CS, credit_risk_component(row)))

\* C12: the baseline's scores are those of the full dataset and the current
\* view's scores those of the filtered recordset, each with the percentiles
\* of its own interest rates; a loan of the current view has the same DTI and
\* credit components in both recordsets, and its two scores are the clipped sum
\* of the same own part and 0.20 times the interest-rate component of the
\* recordset, so they differ only when that component differs.
C12_ScoreRecomputedPerRecordset ==
    call.op = "main_enrich" =>
        LET base == ret.df_base
            cur == ret.df_cur
            lo_base == p5(df)
            hi_base == p95(df)
            lo_cur == p5(call.df_f)
            hi_cur == p95(call.df_f)
            ir_base(i) == ir_norm(base[i].InterestRate, lo_base, hi_base)
            ir_cur(j) == ir_norm(cur[j].InterestRate, lo_cur, hi_cur)
        IN  /\ Column(base, "risk_score") = compute_risk_score(df)
            /\ Column(cur, "risk_score") = compute_risk_score(call.df_f)
            /\ \A j \in 1..Len(cur) :
                  \E i \in 1..Len(base) :
                      /\ base[i].LoanID = cur[j].LoanID
                      /\ dti_component(base[i]) = dti_component(cur[j])
                      /\ credit_risk_component(base[i]) = credit_risk_component(cur[j])
                      /\ base[i].risk_score =
                            clip(RAdd(OwnPart(base[i]), RMul(W_IR, ir_base(i))), R(0), R(1))
                      /\ cur[j].risk_score =
                            clip(RAdd(OwnPart(base[i]), RMul(W_IR, ir_cur(j))), R(0), R(1))
                      /\ ir_base(i) = ir_cur(j) => base[i].risk_score = cur[j].risk_score

\* C12's case: a loan kept by a filter that has one score in the baseline and
\* another in the current view, with the same DTI and credit components.
C12_Witness ==
    /\ call.op = "main_enrich"
    /\ Len(call.df_f) < Len(df)
    /\ \E i \in 1..Len(ret.df_base), j \in 1..Len(ret.df_cur) :
          /\ ret.df_base[i].LoanID = ret.df_cur[j].LoanID
          /\ OwnPart(ret.df_base[i]) = OwnPart(ret.df_cur[j])
          /\ ret.df_base[i].risk_score # ret.df_cur[j].risk_score

(***************************************************************************)
(* The run of main: src/app.py, main                                       *)
(***************************************************************************)
MaxMainRows == 3

\* rows of Loan_default.csv: the two loan profiles, HasMortgage the expected
\* "Yes" or the unexpected "Y"
MainRows ==
    {[c \in DOMAIN pr \cup {"LoanPurpose", "Default"} \cup Range(YesNoCols) |->
        CASE c = "LoanPurpose" -> pr.Education
          [] c = "Default" -> IF pr.Education = "A" THEN 0 ELSE 1
          [] c = "HasMortgage" -> m
          [] c = "HasDependents" -> "No"
          [] c = "HasCoSigner" -> "No"
          [] OTHER -> pr[c]] :
        pr \in Profiles, m \in {"Yes", "Y"}}

\* the Filter Specifications of a run: an interest-rate and a credit score range
\* within the extent of the profiles
MainFilters ==
    [interest_rate_range : {x \in {10, 15} \X {10, 15} : x[1] <= x[2]},
     credit_score_range : {x \in {575, 850} \X {575, 850} : x[1] <= x[2]}]

\* the position of main and its local recordsets, <<>> until assigned
Local(pc, d, d_f, d_base, d_cur) ==
    [op |-> "main", pc |-> pc, df |-> d, df_f |-> d_f, df_base |-> d_base, df_cur |-> d_cur]

\* a plausible slip: the run goes on whatever the filters leave
filtered_empty_unchecked(d_f) == FALSE

\* df_f.empty
filtered_empty(d_f) == d_f = <<>>

AddMainRow ==
    /\ Idle
    /\ Len(df.rows) < MaxMainRows
    /\ \E r \in MainRows : df' = [df EXCEPT !.rows = Append(@, WithLoanID(r, Len(@) + 1))]
    /\ UNCHANGED <<call, ret>>

\* "Load": load_dataset in a try; on any exception st.error and st.stop
MainLoad ==
    /\ Idle
    /\ LET loaded == load_dataset(df)
       IN  IF loaded.status = "ok"
           THEN /\ call' = Local("filter", loaded.table.rows, <<>>, <<>>, <<>>)
                /\ ret' = ret
           ELSE /\ call' = Local("stop_load", <<>>, <<>>, <<>>, <<>>)
                /\ ret' = Append(ret, [kind |-> "error"])
    /\ UNCHANGED df

\* "Smart filters": the filtered recordset; st.warning and st.stop when it is empty
MainFilter ==
    /\ call.op = "main"
    /\ call.pc = "filter"
    /\ \E f \in MainFilters :
          LET df_f == apply_smart_filters(call.df, f)
          IN  IF filtered_empty(df_f)
              THEN /\ call' = Local("stop_filter", call.df, df_f, <<>>, <<>>)
                   /\ ret' = Append(ret, [kind |-> "warning"])
              ELSE /\ call' = Local("enrich_base", call.df, df_f, <<>>, <<>>)
                   /\ ret' = ret
    /\ UNCHANGED df

\* df_base = enrich_risk(df)
MainEnrichBase ==
    /\ call.op = "main"
    /\ call.pc = "enrich_base"
    /\ call' = Local("enrich_cur", call.df, call.df_f, enrich_risk(call.df), <<>>)
    /\ UNCHANGED <<df, ret>>

\* df_cur = enrich_risk(df_f)
MainEnrichCur ==
    /\ call.op = "main"
    /\ call.pc = "enrich_cur"
    /\ call' = Local("panorama", call.df, call.df_f, call.df_base, enrich_risk(call.df_f))
    /\ UNCHANGED <<df, ret>>

\* render_panorama(df_cur, df_base)
MainRenderPanorama ==
    /\ call.op = "main"
    /\ call.pc = "panorama"
    /\ call' = [call EXCEPT !.pc = "problema"]
    /\ ret' = Append(ret, [kind |-> "panorama",
                           k |-> compute_panorama_kpis(call.df_cur, call.df_base)])
    /\ UNCHANGED df

\* render_problema(df_cur)
MainRenderProblema ==
    /\ call.op = "main"
    /\ call.pc = "problema"
    /\ call' = [call EXCEPT !.pc = "acao"]
    /\ ret' = Append(ret, [kind |-> "problema",
                           seg_purpose |-> build_segment_profile(call.df_cur, "LoanPurpose"),
                           seg_emp |-> build_segment_profile(call.df_cur, "EmploymentType")])
    /\ UNCHANGED df

\* render_acao(df_cur)
MainRenderAcao ==
    /\ call.op = "main"
    /\ call.pc = "acao"
    /\ \E top_n \in 1..MaxTopN, only_critical \in BOOLEAN, sort_by \in SortColumns :
          \E order \in SortedOrders(call.df_cur, sort_by) :
              ret' = Append(ret, [kind |-> "acao",
                                  action |-> action_list(call.df_cur, order, top_n,
                                                         only_critical)])
    /\ call' = [call EXCEPT !.pc = "end"]
    /\ UNCHANGED df

NextMain ==
    \/ AddMainRow
    \/ RemoveCsv
    \/ MainLoad
    \/ MainFilter
    \/ MainEnrichBase
    \/ MainEnrichCur
    \/ MainRenderPanorama
    \/ MainRenderProblema
    \/ MainRenderAcao

SpecMain == InitLoad /\ [][NextMain]_vars

\* how many of the stages of a run that was not stopped are behind a position
StagesDone(pc) ==
    CASE pc = "filter" -> 1
      [] pc = "enrich_base" -> 2
      [] pc = "enrich_cur" -> 3
      [] pc = "panorama" -> 4
      [] pc = "problema" -> 5
      [] pc = "acao" -> 6
      [] pc = "end" -> 7
      [] OTHER -> 0

Kinds(page) == [i \in 1..Len(page) |-> page[i].kind]

\* one step of a run: the first is the load, every later one the stage that
\* follows, and a run that was stopped or has ended takes none
C16_NextStage ==
    /\ call.op = "none" /\ call'.op = "main" =>
          IF load_dataset(df).status = "ok"
          THEN call'.pc = "filter" /\ call'.df = load_dataset(df).table.rows
          ELSE call'.pc = "stop_load"
    /\ call.op = "main" =>
          /\ call.pc \notin {"stop_load", "stop_filter", "end"}
          /\ call'.op = "main"
          /\ call.pc = "filter" =>
                IF call'.df_f = <<>> THEN call'.pc = "stop_filter" ELSE call'.pc = "enrich_base"
          /\ call.pc # "filter" => StagesDone(call'.pc) = StagesDone(call.pc) + 1

\* what a run has computed at a position: nothing after a failed load or an
\* empty filtered recordset, else the stages behind it, in order, on the
\* loaded table and a filtered recordset that has rows
C16_ComputedSoFar ==
    call.op = "main" =>
        /\ call.pc = "stop_load" =>
              /\ load_dataset(df).status # "ok"
              /\ call.df_f = <<>> /\ call.df_base = <<>> /\ call.df_cur = <<>>
              /\ Kinds(ret) = <<"error">>
        /\ call.pc = "stop_filter" =>
              /\ call.df_f = <<>> /\ call.df_base = <<>> /\ call.df_cur = <<>>
              /\ Kinds(ret) = <<"warning">>
        /\ StagesDone(call.pc) >= 1 =>
              /\ load_dataset(df).status = "ok"
              /\ Kinds(ret) = SubSeq(<<"panorama", "problema", "acao">>, 1,
                                     IF StagesDone(call.pc) > 4 THEN StagesDone(call.pc) - 4
                                     ELSE 0)
        /\ StagesDone(call.pc) >= 2 =>
              /\ call.df_f # <<>>
              /\ \A j \in 1..Len(call.df_f) : \E i \in 1..Len(call.df) : call.df_f[j] = call.df[i]
        /\ StagesDone(call.pc) < 3 => call.df_base = <<>>
        /\ StagesDone(call.pc) >= 3 => call.df_base = enrich_risk(call.df)
        /\ StagesDone(call.pc) < 4 => call.df_cur = <<>>
        /\ StagesDone(call.pc) >= 4 => call.df_cur = enrich_risk(call.df_f)

\* C16: in every run of main the stages happen in the order load, filter,
\* enrich baseline, enrich current, render Panorama, render Problema, render
\* Acao; a failed load or an empty filtered recordset stops the run there, with
\* no enrichment and nothing rendered but the error or the warning.
C16_StagesInOrder == [][C16_NextStage]_vars /\ []C16_ComputedSoFar

\* C16's case: a run that went through every stage, on a filtered recordset
\* smaller than the loaded table.
C16_Witness ==
    /\ call.op = "main"
    /\ call.pc = "end"
    /\ Len(call.df) = 2
    /\ Len(call.df_f) = 1
    /\ Kinds(ret) = <<"panorama", "problema", "acao">>
    /\ Len(ret[3].action) = 1

=============================================================================
